---- MODULE Spec2Model ----
(***************************************************************************)
(* State-machine model of streamlit/app.py: the Streamlit script (key      *)
(* check, main, sidebar reset, history display, chat input), the generator *)
(* stream_agent_response that adapts the agent's raw event stream, and    *)
(* process_user_input that consumes the adapted events and writes the      *)
(* session store.                                                          *)
(*                                                                         *)
(* The Korean UI strings of the source are written in English:            *)
(*   the "running" caption of a tool  ->  tool_name \o " running..."        *)
(*   the "data received" caption      ->  "received (" length " chars)"    *)
(*   the content of a tool message    ->  "tool run: " \o tool_name        *)
(*   the inline error text            ->  "error occurred: " \o message    *)
(***************************************************************************)
EXTENDS Integers, Sequences, FiniteSets, TLC

\* ------------------------------------------------------------------ bounds
MaxEvents == 3      \* raw events the agent delivers in one browser session at most
MaxCycles == 2      \* user submissions in one browser session at most

\* ------------------------------------------------------- values and inputs
\* Message content is either a Python str or a Python list of str.
S(s) == [str |-> s]
L(items) == [list |-> items]

RECURSIVE JoinRepr(_)
JoinRepr(items) ==
    IF items = <<>> THEN ""
    ELSE IF Len(items) = 1 THEN "'" \o items[1] \o "'"
    ELSE "'" \o items[1] \o "', " \o JoinRepr(Tail(items))

\* str(content): a str is returned as it is, a list as its repr
PyStr(c) == IF "str" \in DOMAIN c THEN c.str ELSE "[" \o JoinRepr(c.list) \o "]"

\* truth value of a content (`if final_answer:`, `elif last_message.content:`)
Truthy(c) == IF "str" \in DOMAIN c THEN c.str # "" ELSE c.list # <<>>

\* a message of the agent runtime: .tool_calls (list of dicts) and .content
Msg(tcs, c) == [tool_calls |-> tcs, content |-> c]
TC(n) == [name |-> n]

SearchPatent == "search_patent"
LookupIpc == "lookup_ipc_code"

AnswerOne == S("T1")
AnswerTwo == S("T2")

ToolCallMsg == Msg(<<TC(LookupIpc)>>, S(""))
MultiCallMsg == Msg(<<TC(SearchPatent), TC(LookupIpc)>>, S("T2"))
BlankMsg == Msg(<<>>, S(""))
ToolOutStr == Msg(<<>>, S("xyz"))
ToolOutList == Msg(<<>>, L(<<"ab">>))

\* a node update that carries a message list / carries none
WithMessages(ms) == [messages |-> ms]
NoMessages == [remaining_steps |-> 1]

\* A raw event is a dict {node_name: value}, kept as the sequence of its
\* items in iteration order (keys are distinct).

\* events of the three shapes the adapter translates
TranslatedEvents ==
    { << <<"agent", WithMessages(<<Msg(<<>>, AnswerOne), ToolCallMsg>>)>> >>,
      << <<"agent", WithMessages(<<MultiCallMsg>>)>> >>,
      << <<"agent", WithMessages(<<Msg(<<>>, AnswerOne)>>)>> >>,
      << <<"agent", WithMessages(<<ToolCallMsg, Msg(<<>>, AnswerTwo)>>)>> >>,
      << <<"tools", WithMessages(<<ToolOutStr>>)>> >>,
      << <<"tools", WithMessages(<<ToolOutList>>)>> >>,
      << <<"tools", WithMessages(<<ToolOutStr>>)>>,
         <<"agent", WithMessages(<<Msg(<<>>, AnswerOne)>>)>> >> }

\* events of other shapes: a blank agent message, another node, no
\* message list
OtherEvents ==
    { << <<"agent", WithMessages(<<BlankMsg>>)>> >>,
      << <<"supervisor", WithMessages(<<Msg(<<>>, AnswerOne)>>)>> >>,
      << <<"agent", NoMessages>> >> }

\* events with an empty message list
EmptyListEvents ==
    { << <<"agent", WithMessages(<<>>)>> >>,
      << <<"tools", WithMessages(<<>>)>>,
         <<"agent", WithMessages(<<ToolCallMsg>>)>> >> }

RawEvents == TranslatedEvents \cup OtherEvents \cup EmptyListEvents

\* str(e) of what agent_executor.stream can raise, and of the IndexError
\* that value["messages"][-1] raises on an empty list
StreamFaults == {"timeout"}
IndexErrorText == "list index out of range"

UserInputs == {"q1"}
UUIDs == {"u1", "u2"}

NoEvent == [type |-> "none"]
EmptySlot == [kind |-> "empty"]

VARIABLES
    api_key,        \* OPENAI_API_KEY is set in the environment
    agent_created,  \* the cached agent_executor exists
    session_state,  \* st.session_state: a dict with keys among messages, thread_id
    pc,             \* position of the script run
    interaction,    \* what triggered the script run: load, reset or submit
    cycles,         \* submissions handled so far
    delivered,      \* raw events the agent has delivered so far
    gen,            \* frame of the generator stream_agent_response
    stream,         \* agent_executor.stream: its state and the events it delivered
    pending,        \* the adapted event handed to the consumer at a yield
    loc,            \* locals of process_user_input
    out,            \* adapted events yielded in this cycle, in order
    start_state,    \* st.session_state as process_user_input found it
    ui              \* what the page shows in this script run

vars == <<api_key, agent_created, session_state, pc, interaction, cycles, delivered,
          gen, stream, pending, loc, out, start_state, ui>>

GenNone == [pc |-> "none", event |-> <<>>, idx |-> 0, final_answer |-> S(""),
            tool_calls_info |-> <<>>, thread_id |-> "", user_input |-> ""]
StreamNone == [state |-> "none", consumed |-> <<>>]
LocNone == [user_input |-> "", final_answer |-> S(""), tool_calls |-> <<>>,
            response_placeholder |-> EmptySlot, tool_placeholder |-> EmptySlot]
UiNone == [config_error |-> FALSE, widgets |-> FALSE, rendered |-> <<>>, error |-> ""]

HasMessages == "messages" \in DOMAIN session_state
HasThreadId == "thread_id" \in DOMAIN session_state

\* st.session_state with the given keys set
SessionState(keys, msgs, tid) ==
    [k \in keys |-> IF k = "messages" THEN msgs ELSE tid]

Init ==
    /\ api_key \in BOOLEAN
    /\ agent_created = FALSE
    /\ session_state = SessionState({}, <<>>, "")
    /\ pc = "idle"
    /\ interaction = "load"
    /\ cycles = 0
    /\ delivered = 0
    /\ gen = GenNone
    /\ stream = StreamNone
    /\ pending = NoEvent
    /\ loc = LocNone
    /\ out = <<>>
    /\ start_state = SessionState({}, <<>>, "")
    /\ ui = UiNone

\* -------------------------------------------------------- the script run
\* line 253 as a detached call: main returns while the cycle is running
ScriptRunOverDetached == TRUE

\* lines 252-253 and 259-260: main calls process_user_input synchronously,
\* the script run is over when main has returned
ScriptRunOver == pc = "idle"

\* Streamlit runs the script from the top on page load and on every widget
\* interaction; the page and every local of the previous run are gone. A
\* script run is taken to run to its end before the next one starts.
RunScript(i) ==
    /\ ScriptRunOver
    /\ i \in {"load", "reset", "submit"}
    /\ i # "load" => ui.widgets
    /\ i = "submit" => cycles < MaxCycles
    /\ interaction' = i
    /\ pc' = "check_key"
    /\ gen' = GenNone
    /\ stream' = StreamNone
    /\ pending' = NoEvent
    /\ loc' = LocNone
    /\ out' = <<>>
    /\ start_state' = SessionState({}, <<>>, "")
    /\ ui' = UiNone
    /\ UNCHANGED <<api_key, agent_created, session_state, cycles, delivered>>

\* lines 23-25 without st.stop(): the error is shown and the script goes on
StopsOnMissingKeyNever(key) == FALSE

\* lines 23-25: st.stop() ends the script run when the key is missing
StopsOnMissingKey(key) == ~key

\* lines 19-25: the key check at module level
CheckApiKey ==
    /\ pc = "check_key"
    /\ ui' = [ui EXCEPT !.config_error = ~api_key]
    /\ pc' = IF StopsOnMissingKey(api_key) THEN "idle" ELSE "init"
    /\ UNCHANGED <<api_key, agent_created, session_state, interaction, cycles, delivered,
                   gen, stream, pending, loc, out, start_state>>

\* lines 73 and 240: str(uuid.uuid4()). uuid4 is taken to be collision-free:
\* the value it returns is none of the ids the session holds.
Uuid4(held) == UUIDs \ held

HeldIds == IF HasThreadId THEN {session_state.thread_id} ELSE {}

\* lines 72-73 without the test of line 72: a new id on every run
ThreadIdRegenerated(has, ss, u) == u

\* lines 72-73: the id is created only when the session has none
ThreadIdAfterInit(has, ss, u) == IF has THEN ss.thread_id ELSE u

\* lines 231-232: initialize_agent (cached) and initialize_session_state
InitializeSessionState ==
    /\ pc = "init"
    /\ agent_created' = TRUE
    /\ \E u \in Uuid4(HeldIds) :
         session_state' =
            SessionState({"messages", "thread_id"},
                         IF HasMessages THEN session_state.messages ELSE <<>>,
                         ThreadIdAfterInit(HasThreadId, session_state, u))
    /\ pc' = "sidebar"
    /\ UNCHANGED <<api_key, interaction, cycles, delivered, gen, stream, pending, loc, out, start_state, ui>>

\* lines 239-240 without line 240: the old id is kept
ResetStateKeepsId(ss, u) ==
    SessionState({"messages", "thread_id"}, <<>>, ss.thread_id)

\* lines 239-240: st.session_state after the reset
ResetState(ss, u) ==
    SessionState({"messages", "thread_id"}, <<>>, u)

\* lines 238-241: the reset button; st.rerun() restarts the script
ResetConversation ==
    /\ pc = "sidebar"
    /\ interaction = "reset"
    /\ \E u \in Uuid4(HeldIds) :
         session_state' = ResetState(session_state, u)
    /\ interaction' = "load"
    /\ pc' = "check_key"
    /\ ui' = UiNone
    /\ UNCHANGED <<api_key, agent_created, cycles, delivered, gen, stream, pending, loc, out, start_state>>

\* lines 243-246: the button was not clicked
SidebarPass ==
    /\ pc = "sidebar"
    /\ interaction # "reset"
    /\ pc' = "display"
    /\ UNCHANGED <<api_key, agent_created, session_state, interaction, cycles, delivered,
                   gen, stream, pending, loc, out, start_state, ui>>

RunningCaption(tool_name) == tool_name \o " running..."

\* lines 81-93 with the tool branch showing the stored content
RenderMessageToolContent(message) ==
    IF message.role = "user"
      THEN << [chat |-> "user", kind |-> "write", body |-> message.content] >>
    ELSE IF message.role = "assistant"
      THEN << [chat |-> "assistant", kind |-> "write", body |-> message.content] >>
    ELSE IF message.role = "tool"
      THEN << [chat |-> "assistant", kind |-> "caption", body |-> message.content] >>
    ELSE <<>>

\* lines 81-93: what one message of the history adds to the page (a message
\* of another role adds nothing)
RenderMessage(message) ==
    IF message.role = "user"
      THEN << [chat |-> "user", kind |-> "write", body |-> message.content] >>
    ELSE IF message.role = "assistant"
      THEN << [chat |-> "assistant", kind |-> "write", body |-> message.content] >>
    ELSE IF message.role = "tool"
      THEN << [chat |-> "assistant", kind |-> "caption",
               body |-> S(RunningCaption(IF "tool_name" \in DOMAIN message
                                           THEN message.tool_name ELSE "tool"))] >>
    ELSE <<>>

\* line 80: the loop over the history
RECURSIVE RenderAll(_)
RenderAll(msgs) ==
    IF msgs = <<>> THEN <<>> ELSE RenderMessage(Head(msgs)) \o RenderAll(Tail(msgs))

\* lines 79-93
DisplayChatMessages ==
    /\ pc = "display"
    /\ ui' = [ui EXCEPT !.rendered = RenderAll(session_state.messages)]
    /\ pc' = "input"
    /\ UNCHANGED <<api_key, agent_created, session_state, interaction, cycles, delivered,
                   gen, stream, pending, loc, out, start_state>>

\* line 252, nothing was submitted: the script run ends
ChatInputIdle ==
    /\ pc = "input"
    /\ interaction # "submit"
    /\ ui' = [ui EXCEPT !.widgets = TRUE]
    /\ pc' = "idle"
    /\ UNCHANGED <<api_key, agent_created, session_state, interaction, cycles, delivered,
                   gen, stream, pending, loc, out, start_state>>

\* ------------------------------------------------ process_user_input, start
\* list.insert(0, m) in place of list.append(m)
AppendMessageFront(msgs, m) == <<m>> \o msgs

\* list.append
AppendMessage(msgs, m) == Append(msgs, m)

UserMessage(user_input) == [role |-> "user", content |-> S(user_input)]

\* lines 151-166 and the call of line 170: the user message is appended, the
\* placeholders and the locals are created, the generator object is made
\* (its body does not run before the first next()).
ProcessUserInput ==
    /\ pc = "input"
    /\ interaction = "submit"
    /\ \E user_input \in UserInputs :
         /\ session_state' =
              [session_state EXCEPT !.messages = AppendMessage(@, UserMessage(user_input))]
         /\ loc' = [LocNone EXCEPT !.user_input = user_input]
         /\ gen' = [GenNone EXCEPT !.pc = "created",
                                   !.user_input = user_input,
                                   !.thread_id = session_state.thread_id]
    /\ start_state' = session_state
    /\ cycles' = cycles + 1
    /\ ui' = [ui EXCEPT !.widgets = TRUE]
    /\ pc' = "gen"
    /\ UNCHANGED <<api_key, agent_created, interaction, delivered, stream, pending, out>>

\* ------------------------------------------------- stream_agent_response
\* lines 100-108 and the stream() call of line 111
GenStart ==
    /\ pc = "gen"
    /\ gen.pc = "created"
    /\ gen' = [gen EXCEPT !.pc = "pull", !.final_answer = S(""),
                          !.tool_calls_info = <<>>]
    /\ stream' = [state |-> "open", consumed |-> <<>>]
    /\ UNCHANGED <<api_key, agent_created, session_state, pc, interaction, cycles, delivered,
                   pending, loc, out, start_state, ui>>

\* a yield: the event goes to the consumer and the generator is suspended
\* at the continuation held in g.pc
Yield(ev, g) ==
    /\ gen' = g
    /\ pending' = ev
    /\ out' = Append(out, ev)
    /\ pc' = "apply"

ToolMessage(tool_name) ==
    [role |-> "tool", content |-> S("tool run: " \o tool_name), tool_name |-> tool_name]

ToolCallEvent(tool_name) == [type |-> "tool_call", tool_name |-> tool_name]
ToolResultEvent(length) == [type |-> "tool_result", length |-> length]
ErrorEvent(message) == [type |-> "error", message |-> message]

\* line 140, without the tool-call log
FinalEventNoLog(final_answer, tool_calls_info) ==
    [type |-> "final", content |-> final_answer, tool_calls |-> <<>>]

\* line 140
FinalEvent(final_answer, tool_calls_info) ==
    [type |-> "final", content |-> final_answer, tool_calls |-> tool_calls_info]

\* line 131, yielding the closing event for every answer
AnswerEventAsFinal(content) ==
    [type |-> "final", content |-> content, tool_calls |-> <<>>]

\* line 131
AnswerEvent(content) == [type |-> "answer", content |-> content]

\* lines 142-143 written as a `finally`: the recorded answer is closed first
ExceptHandlerClosing(message) ==
    Yield(IF Truthy(gen.final_answer)
            THEN FinalEvent(gen.final_answer, gen.tool_calls_info)
            ELSE ErrorEvent(message),
          [gen EXCEPT !.pc = "end"])

\* lines 142-143: the except clause, one error event and the generator ends
ExceptHandler(message) ==
    Yield(ErrorEvent(message), [gen EXCEPT !.pc = "end"])

\* line 111: the stream delivers its next raw event
StreamYields(e) ==
    /\ pc = "gen"
    /\ gen.pc = "pull"
    /\ stream.state = "open"
    /\ delivered < MaxEvents
    /\ e \in RawEvents
    /\ stream' = [stream EXCEPT !.consumed = Append(@, e)]
    /\ delivered' = delivered + 1
    /\ gen' = [gen EXCEPT !.pc = "entries", !.event = e, !.idx = 1]
    /\ UNCHANGED <<api_key, agent_created, session_state, pc, interaction, cycles,
                   pending, loc, out, start_state, ui>>

\* line 111: the stream raises instead of delivering an event
StreamRaises(f) ==
    /\ pc = "gen"
    /\ gen.pc = "pull"
    /\ stream.state = "open"
    /\ f \in StreamFaults
    /\ stream' = [stream EXCEPT !.state = "raised"]
    /\ ExceptHandler(f)
    /\ UNCHANGED <<api_key, agent_created, session_state, interaction, cycles, delivered,
                   loc, start_state, ui>>

\* line 111: the stream is exhausted, the for loop ends
StreamExhausted ==
    /\ pc = "gen"
    /\ gen.pc = "pull"
    /\ stream.state = "open"
    /\ stream' = [stream EXCEPT !.state = "exhausted"]
    /\ gen' = [gen EXCEPT !.pc = "after_loop"]
    /\ UNCHANGED <<api_key, agent_created, session_state, pc, interaction, cycles, delivered,
                   pending, loc, out, start_state, ui>>

\* line 114: value["messages"][-1]
LastMessage(ms) == ms[Len(ms)]

\* line 120: last_message.tool_calls[0]['name']
FirstToolName(last_message) == last_message.tool_calls[1].name

\* line 130: the answer that is remembered
RecordAnswer(old, content) == content

\* lines 112-136: one item of the current raw event
ProcessEntry ==
    /\ pc = "gen"
    /\ gen.pc = "entries"
    /\ LET node_name == gen.event[gen.idx][1]
           value == gen.event[gen.idx][2]
           cont == IF gen.idx < Len(gen.event) THEN "entries" ELSE "pull"
           g == [gen EXCEPT !.pc = cont, !.idx = @ + 1]
           Skip == /\ gen' = g
                   /\ UNCHANGED <<pc, pending, out>>
       IN  IF "messages" \notin DOMAIN value THEN Skip
           ELSE IF value.messages = <<>> THEN ExceptHandler(IndexErrorText)
           ELSE LET last_message == LastMessage(value.messages) IN
             IF node_name = "agent" THEN
                IF last_message.tool_calls # <<>> THEN
                   LET tool_name == FirstToolName(last_message) IN
                   Yield(ToolCallEvent(tool_name),
                         [g EXCEPT !.tool_calls_info = Append(@, ToolMessage(tool_name))])
                ELSE IF Truthy(last_message.content) THEN
                   LET fa == RecordAnswer(gen.final_answer, last_message.content) IN
                   Yield(AnswerEvent(fa), [g EXCEPT !.final_answer = fa])
                ELSE Skip
             ELSE IF node_name = "tools" THEN
                Yield(ToolResultEvent(Len(PyStr(last_message.content))), g)
             ELSE Skip
    /\ UNCHANGED <<api_key, agent_created, session_state, interaction, cycles, delivered,
                   stream, loc, start_state, ui>>

\* line 139 without its condition
ShouldEmitFinalAlways(final_answer) == TRUE

\* line 139 never taken
ShouldEmitFinalNever(final_answer) == FALSE

\* line 139
ShouldEmitFinal(final_answer) == Truthy(final_answer)

\* lines 139-140: after the loop
AfterLoop ==
    /\ pc = "gen"
    /\ gen.pc = "after_loop"
    /\ IF ShouldEmitFinal(gen.final_answer)
         THEN Yield(FinalEvent(gen.final_answer, gen.tool_calls_info),
                    [gen EXCEPT !.pc = "end"])
         ELSE /\ gen' = [gen EXCEPT !.pc = "done"]
              /\ pc' = "post"
              /\ UNCHANGED <<pending, out>>
    /\ UNCHANGED <<api_key, agent_created, session_state, interaction, cycles, delivered,
                   stream, loc, start_state, ui>>

\* resumed after its last yield the generator returns: StopIteration
GenReturn ==
    /\ pc = "gen"
    /\ gen.pc = "end"
    /\ gen' = [gen EXCEPT !.pc = "done"]
    /\ pc' = "post"
    /\ UNCHANGED <<api_key, agent_created, session_state, interaction, cycles, delivered,
                   stream, pending, loc, out, start_state, ui>>

\* --------------------------------------------- process_user_input, the loop
ReceivedCaption(length) == "received (" \o ToString(length) \o " chars)"
Caption(text) == [kind |-> "caption", text |-> text]
Written(content) == [kind |-> "write", body |-> content]

\* lines 176-180 with the bare tool name as content
ToolCallRecordBare(tool_name) ==
    [role |-> "tool", content |-> S(tool_name), tool_name |-> tool_name]

\* lines 176-180: the tool message process_user_input builds for a tool_call
ToolCallRecord(tool_name) ==
    [role |-> "tool", content |-> S("tool run: " \o tool_name), tool_name |-> tool_name]

\* lines 186-188 with st.write in place of response_placeholder.write: each
\* write adds to what the slot shows
ApplyAnswerAdding(l, event) ==
    [l EXCEPT !.final_answer = event.content,
              !.response_placeholder =
                 IF @ = EmptySlot THEN Written(event.content)
                 ELSE Written(S(PyStr(@.body) \o PyStr(event.content)))]

\* lines 186-188: the answer event replaces what the answer slot shows
ApplyAnswer(l, event) ==
    [l EXCEPT !.final_answer = event.content,
              !.response_placeholder = Written(event.content)]

\* lines 195-198 with a `break` in place of the `return`
StoreOnErrorBreak(msgs, final_answer, tool_calls) ==
    IF Truthy(final_answer)
      THEN Append(msgs, [role |-> "assistant", content |-> final_answer]) \o tool_calls
      ELSE msgs

\* lines 195-198: what the store holds after an error event
StoreOnError(msgs, final_answer, tool_calls) == msgs

\* lines 171-198: the body of the for loop for the event just yielded
ApplyEvent ==
    /\ pc = "apply"
    /\ LET event == pending
           event_type == event.type
       IN  CASE event_type = "tool_call" ->
                  /\ loc' = [loc EXCEPT
                        !.tool_placeholder = Caption(RunningCaption(event.tool_name)),
                        !.tool_calls = Append(@, ToolCallRecord(event.tool_name))]
                  /\ pc' = "gen"
                  /\ UNCHANGED <<session_state, ui>>
             [] event_type = "tool_result" ->
                  /\ loc' = [loc EXCEPT
                        !.tool_placeholder = Caption(ReceivedCaption(event.length))]
                  /\ pc' = "gen"
                  /\ UNCHANGED <<session_state, ui>>
             [] event_type = "answer" ->
                  /\ loc' = ApplyAnswer(loc, event)
                  /\ pc' = "gen"
                  /\ UNCHANGED <<session_state, ui>>
             [] event_type = "final" ->
                  /\ loc' = [loc EXCEPT
                        !.final_answer = event.content,
                        !.response_placeholder = Written(event.content),
                        !.tool_placeholder = EmptySlot]
                  /\ pc' = "gen"
                  /\ UNCHANGED <<session_state, ui>>
             [] event_type = "error" ->
                  /\ ui' = [ui EXCEPT !.error = "error occurred: " \o event.message]
                  /\ session_state' = [session_state EXCEPT !.messages =
                        StoreOnError(@, loc.final_answer, loc.tool_calls)]
                  /\ pc' = "idle"
                  /\ UNCHANGED loc
             [] OTHER ->
                  /\ pc' = "gen"
                  /\ UNCHANGED <<session_state, ui, loc>>
    /\ pending' = NoEvent
    /\ UNCHANGED <<api_key, agent_created, interaction, cycles, delivered, gen, stream,
                   out, start_state>>

AssistantMessage(content) == [role |-> "assistant", content |-> content]

\* lines 201-209 without the test of line 201
StoreResultsUnguarded(msgs, final_answer, tool_calls) ==
    AppendMessage(msgs, AssistantMessage(final_answer)) \o tool_calls

\* lines 201-209: the assistant message, then the tool messages
StoreResults(msgs, final_answer, tool_calls) ==
    IF Truthy(final_answer)
      THEN AppendMessage(msgs, AssistantMessage(final_answer)) \o tool_calls
      ELSE msgs

\* lines 200-209: the loop has ended without an error event
FinishCycle ==
    /\ pc = "post"
    /\ session_state' = [session_state EXCEPT !.messages =
            StoreResults(@, loc.final_answer, loc.tool_calls)]
    /\ pc' = "idle"
    /\ UNCHANGED <<api_key, agent_created, interaction, cycles, delivered, gen, stream,
                   pending, loc, out, start_state, ui>>

Next ==
    \/ \E i \in {"load", "reset", "submit"} : RunScript(i)
    \/ CheckApiKey
    \/ InitializeSessionState
    \/ ResetConversation
    \/ SidebarPass
    \/ DisplayChatMessages
    \/ ChatInputIdle
    \/ ProcessUserInput
    \/ GenStart
    \/ \E e \in RawEvents : StreamYields(e)
    \/ \E f \in StreamFaults : StreamRaises(f)
    \/ StreamExhausted
    \/ ProcessEntry
    \/ AfterLoop
    \/ GenReturn
    \/ ApplyEvent
    \/ FinishCycle

Spec == Init /\ [][Next]_vars

TypeOK ==
    /\ api_key \in BOOLEAN
    /\ pc \in {"idle", "check_key", "init", "sidebar", "display", "input",
               "gen", "apply", "post"}
    /\ cycles \in 0..MaxCycles
    /\ delivered \in 0..MaxEvents
    /\ Len(stream.consumed) <= delivered
\* ======================================================== the claims
Last(s) == s[Len(s)]
IsPrefix(s, t) == Len(s) <= Len(t) /\ SubSeq(t, 1, Len(s)) = s
OfType(t) == SelectSeq(out, LAMBDA ev : ev.type = t)
Emitted(t) == \E i \in 1..Len(out) : out[i].type = t

\* a cycle was run in this script run and process_user_input has returned
CycleOver == pc = "idle" /\ gen.pc # "none"

\* The translation rule as the specification words it, for one item of a
\* raw event: the sequence of adapted events it stands for (none or one).
RuleEntry(entry) ==
    LET node_name == entry[1]
        value == entry[2]
        shaped == "messages" \in DOMAIN value /\ value.messages # <<>>
        m == value.messages[Len(value.messages)]
    IN  IF ~shaped THEN <<>>
        ELSE IF node_name = "agent" /\ m.tool_calls # <<>>
          THEN << [type |-> "tool_call", tool_name |-> m.tool_calls[1].name] >>
        ELSE IF node_name = "agent" /\ Truthy(m.content)
          THEN << [type |-> "answer", content |-> m.content] >>
        ELSE IF node_name = "tools"
          THEN << [type |-> "tool_result", length |-> Len(PyStr(m.content))] >>
        ELSE <<>>

RECURSIVE RuleEvent(_)
RuleEvent(e) == IF e = <<>> THEN <<>> ELSE RuleEntry(Head(e)) \o RuleEvent(Tail(e))

RECURSIVE RuleStream(_)
RuleStream(es) == IF es = <<>> THEN <<>> ELSE RuleEvent(Head(es)) \o RuleStream(Tail(es))

\* the items of all raw events, in order
RECURSIVE Items(_)
Items(es) == IF es = <<>> THEN <<>> ELSE Head(es) \o Items(Tail(es))

\* C1: when the stream raises after k raw events were consumed, the adapted
\* output is the translation of those k events followed by exactly one error
\* event that carries the fault's description; the error event stays the
\* last event of the cycle, no final event is emitted, and the consumer
\* receives the fault only as that event (it shows it and returns).
C1_FaultBecomesOneError ==
    stream.state = "raised" =>
       /\ \E f \in StreamFaults :
             /\ out = RuleStream(stream.consumed) \o << [type |-> "error", message |-> f] >>
             /\ pc = "idle" => ui.error = "error occurred: " \o f
       /\ Len(OfType("error")) = 1
       /\ ~Emitted("final")
       /\ pc \in {"apply", "idle"}

C1_Witness ==
    /\ stream.state = "raised"
    /\ pc = "idle"
    /\ Len(stream.consumed) = 2
    /\ Emitted("answer")
    /\ Emitted("tool_call")

\* C2: a final event is emitted at most once per cycle and is the last
\* adapted event of the cycle: no event of any kind follows it.
C2_FinalOnceAndLast ==
    \A i \in 1..Len(out) : out[i].type = "final" => i = Len(out)

C2_Witness ==
    /\ CycleOver
    /\ Len(out) = 4
    /\ Last(out).type = "final"
    /\ out[1].type = "answer"

\* C3 as stated: every cycle whose stream has ended closes with a final or
\* an error event as the adapter's last event.
C3_EveryCycleEndsTerminal ==
    (CycleOver /\ stream.state \in {"exhausted", "raised"}) =>
        /\ out # <<>>
        /\ Last(out).type \in {"final", "error"}

\* C3 amended: a stream that ends by fault closes the cycle with an error
\* event, a stream exhausted after an answer was emitted closes it with a
\* final event, a stream exhausted without any answer closes it with no
\* terminal event at all; process_user_input returns only after the adapter
\* has stopped and the last event it yielded has been applied.
C3_TerminalUnlessNoAnswer ==
    /\ (CycleOver /\ stream.state = "raised") =>
          /\ Last(out).type = "error"
          /\ ui.error = "error occurred: " \o Last(out).message
    /\ (CycleOver /\ stream.state = "exhausted" /\ Emitted("answer")) =>
          /\ Last(out).type = "final"
          /\ loc.response_placeholder = [kind |-> "write", body |-> Last(out).content]
          /\ loc.tool_placeholder = EmptySlot
    /\ (CycleOver /\ stream.state = "exhausted" /\ ~Emitted("answer")) =>
          /\ ~Emitted("final")
          /\ ~Emitted("error")
    /\ CycleOver =>
          /\ pending = NoEvent
          /\ gen.pc = "done" \/ (gen.pc = "end" /\ Last(out).type = "error")
    /\ (gen.pc \notin {"none", "done"} /\ ~Emitted("error")) => pc \in {"gen", "apply"}

C3_Witness ==
    /\ CycleOver
    /\ stream.state = "exhausted"
    /\ Len(stream.consumed) = 2
    /\ Emitted("tool_call")
    /\ Emitted("tool_result")
    /\ ~Emitted("answer")

\* C4: a cycle that ends with an error event leaves in the store exactly
\* the messages it found plus the user message appended at its start (no
\* assistant message, no tool message), and the same session id.
C4_ErrorCycleStoresOnlyUser ==
    (CycleOver /\ Emitted("error")) =>
        /\ DOMAIN session_state = DOMAIN start_state
        /\ session_state.thread_id = start_state.thread_id
        /\ session_state.messages =
              start_state.messages \o << [role |-> "user", content |-> S(loc.user_input)] >>

C4_Witness ==
    /\ CycleOver
    /\ Emitted("error")
    /\ Emitted("answer")
    /\ Emitted("tool_call")
    /\ Len(start_state.messages) >= 2

\* C5: at the end of a cycle the number of tool_call events emitted equals
\* the number of raw agent items fed to the adapter whose last message has a
\* non-empty tool-invocation list.
C5_ToolCallCount ==
    CycleOver =>
        Len(OfType("tool_call")) =
        Len(SelectSeq(Items(stream.consumed),
                      LAMBDA entry :
                         /\ entry[1] = "agent"
                         /\ "messages" \in DOMAIN entry[2]
                         /\ entry[2].messages # <<>>
                         /\ entry[2].messages[Len(entry[2].messages)].tool_calls # <<>>))

\* C6: when the stream is exhausted and an answer was recorded there is one
\* final event; it carries the content of the last answer event of the cycle
\* (also when tool events followed that answer) and a log with one entry per
\* tool_call event, in emission order, each naming that event's tool.
C6_FinalCarriesLastAnswerAndLog ==
    (stream.state = "exhausted" /\ gen.pc \in {"end", "done"} /\ Emitted("answer")) =>
        /\ Len(OfType("final")) = 1
        /\ LET fin == OfType("final")[1]
               answers == OfType("answer")
               calls == OfType("tool_call")
           IN  /\ fin.content = Last(answers).content
               /\ Len(fin.tool_calls) = Len(calls)
               /\ \A j \in 1..Len(calls) :
                     /\ fin.tool_calls[j].tool_name = calls[j].tool_name
                     /\ fin.tool_calls[j].role = "tool"

C6_Witness ==
    /\ CycleOver
    /\ Len(out) = 4
    /\ out[1].type = "tool_call" /\ out[1].tool_name = SearchPatent
    /\ out[2].type = "answer"
    /\ out[3].type = "tool_call" /\ out[3].tool_name = LookupIpc
    /\ out[4].type = "final"

\* C7: when no raw agent item has a last message with non-empty content and
\* no tool invocations, no final event is emitted.
C7_NoAnswerNoFinal ==
    (\A i \in 1..Len(Items(stream.consumed)) :
        LET entry == Items(stream.consumed)[i]
        IN  ~ /\ entry[1] = "agent"
              /\ "messages" \in DOMAIN entry[2]
              /\ entry[2].messages # <<>>
              /\ Truthy(entry[2].messages[Len(entry[2].messages)].content)
              /\ entry[2].messages[Len(entry[2].messages)].tool_calls = <<>>)
    => ~Emitted("final")

C7_Witness ==
    /\ CycleOver
    /\ gen.pc = "done"
    /\ stream.state = "exhausted"
    /\ ~Emitted("final")
    /\ \E i \in 1..Len(stream.consumed) :
          stream.consumed[i] = << <<"agent", WithMessages(<<MultiCallMsg>>)>> >>
    /\ \E i \in 1..Len(stream.consumed) :
          stream.consumed[i] = << <<"supervisor", WithMessages(<<Msg(<<>>, AnswerOne)>>)>> >>

\* C8: for a stream that raises no fault, the adapted events before the
\* closing final are the raw events translated one by one, in order, by the
\* rule (anything unrecognized giving nothing).
C8_OrderPreservingTranslation ==
    (CycleOver /\ stream.state # "raised") =>
        SelectSeq(out, LAMBDA ev : ev.type # "final") = RuleStream(stream.consumed)

\* C9: raw events that match no recognized combination produce no adapted
\* event, never an error event, and consumption goes on: while every raw
\* event delivered so far is unrecognized and the stream has not raised,
\* nothing has been emitted.
C9_UnrecognizedIgnored ==
    (stream.state # "raised" /\ RuleStream(stream.consumed) = <<>>) => out = <<>>

\* C10: every step other than the reset leaves the previous message list a
\* prefix of the new one.
C10_AppendOnly ==
    [][ \/ (pc = "sidebar" /\ interaction = "reset")
        \/ (HasMessages =>
              /\ "messages" \in DOMAIN session_state'
              /\ IsPrefix(session_state.messages, session_state'.messages)) ]_vars

C10_Witness ==
    /\ CycleOver
    /\ Len(session_state.messages) >= 5
    /\ \E i \in 1..Len(session_state.messages) : session_state.messages[i].role = "tool"
    /\ Len(start_state.messages) >= 2

\* the messages this cycle added to the store after its user message
Added ==
    SubSeq(session_state.messages, Len(start_state.messages) + 2,
           Len(session_state.messages))

\* C11: within a cycle the store keeps the conversational order: a tool
\* message that records a tool call made before the cycle's answer stands
\* in the message list before the cycle's assistant message.
C11_ToolBeforeAnswer ==
    (CycleOver /\ Emitted("final") /\ out[1].type = "tool_call") =>
        \E i, j \in 1..Len(Added) :
            /\ Added[i].role = "tool"
            /\ Added[i].tool_name = out[1].tool_name
            /\ Added[j].role = "assistant"
            /\ i < j

\* the step of the reset button
ResetStep == pc = "sidebar" /\ interaction = "reset"

\* C12: the reset leaves an empty message list and a session id different
\* from the one held before, whatever the session held.
C12_ResetClearsAndRenews ==
    [][ ResetStep =>
          /\ session_state'.messages = <<>>
          /\ session_state'.thread_id # session_state.thread_id ]_vars

\* a reset has acted on a session that had run a cycle
C12_Witness ==
    /\ pc = "check_key"
    /\ cycles >= 1
    /\ HasMessages
    /\ session_state.messages = <<>>

\* C13: once created the session id is changed by the reset step only (not
\* by initialize_session_state on later runs, by any step of a cycle or by
\* rendering), and the request of a cycle carries the id the session holds.
C13_IdChangesOnlyOnReset ==
    [][ /\ (HasThreadId /\ ~ResetStep) =>
              /\ "thread_id" \in DOMAIN session_state'
              /\ session_state'.thread_id = session_state.thread_id
        /\ gen'.pc # "none" => gen'.thread_id = session_state'.thread_id ]_vars

\* a second cycle of the same conversation has ended, one of them by a fault
C13_Witness ==
    /\ CycleOver
    /\ cycles = 2
    /\ Emitted("error")
    /\ Len(start_state.messages) >= 2
    /\ gen.thread_id = start_state.thread_id
    /\ session_state.thread_id = start_state.thread_id

\* a response cycle is being handled: from the call of process_user_input
\* to its return
CycleActive == pc \in {"gen", "apply", "post"}

\* C14: one cycle at a time. While a cycle is active no interaction (new
\* submission or reset) is taken up, no other cycle is started and the
\* generator being consumed stays the one of this cycle; the message list
\* is written only by process_user_input, the single consumer, at the end
\* of its loop.
C14_OneCycleAtATime ==
    [][ /\ CycleActive =>
              /\ interaction' = interaction
              /\ cycles' = cycles
              /\ start_state' = start_state
              /\ gen'.user_input = gen.user_input /\ gen'.thread_id = gen.thread_id
              /\ session_state'.thread_id = session_state.thread_id
              /\ session_state'.messages # session_state.messages => pc = "post"
        /\ cycles' # cycles => (gen.pc = "none" /\ ~CycleActive /\ cycles' = cycles + 1) ]_vars

\* a second cycle is under way, its stream being consumed, after a first
\* cycle of the same session was completed
C14_Witness ==
    /\ pc = "apply"
    /\ cycles = 2
    /\ Len(stream.consumed) >= 1
    /\ Len(start_state.messages) >= 2

\* C15: rendering a message list of N messages gives N entries in the order
\* of the list; a user or assistant entry shows the message's content, a
\* tool entry shows only the caption made from its tool name.
C15_RenderRoundTrip ==
    pc = "input" =>
        /\ Len(ui.rendered) = Len(session_state.messages)
        /\ \A i \in 1..Len(session_state.messages) :
              LET m == session_state.messages[i]
                  r == ui.rendered[i]
              IN  IF m.role = "tool"
                    THEN /\ r.kind = "caption"
                         /\ r.body = S(m.tool_name \o " running...")
                         /\ r.body # m.content
                    ELSE /\ r.kind = "write"
                         /\ r.chat = m.role
                         /\ r.body = m.content

\* a history with a user, an assistant and two tool messages was rendered
C15_Witness ==
    /\ pc = "input"
    /\ Len(ui.rendered) >= 4
    /\ ui.rendered[1].chat = "user"
    /\ ui.rendered[2].kind = "write" /\ ui.rendered[2].chat = "assistant"
    /\ ui.rendered[3].kind = "caption"
    /\ ui.rendered[4].kind = "caption"
    /\ ui.rendered[3] # ui.rendered[4]

\* C16: with the key missing every script run shows the configuration
\* error and stops at the check: the session store is never initialized (no
\* messages, no thread_id), the agent is never created, no cycle starts.
C16_MissingKeyHalts ==
    [][ ~api_key =>
          /\ pc = "check_key" => (ui'.config_error /\ pc' = "idle")
          /\ pc' \in {"idle", "check_key"}
          /\ DOMAIN session_state' = {}
          /\ ~agent_created'
          /\ cycles' = 0
          /\ gen' = GenNone
          /\ ~ui'.widgets ]_vars

\* the key is missing, a run has shown the error and stopped
C16_Witness ==
    /\ ~api_key
    /\ pc = "idle"
    /\ ui.config_error

\* C17: when the answer event being applied is the same as the event applied
\* just before it, the second application leaves the answer slot, the
\* status slot, final_answer and tool_calls as the first one left them.
C17_AnswerIdempotent ==
    [][ (/\ pc = "apply"
         /\ pending.type = "answer"
         /\ Len(out) >= 2
         /\ out[Len(out) - 1] = pending)
        => loc' = loc ]_vars

\* the same answer event was applied twice in a row, after a tool call
C17_Witness ==
    /\ pc = "gen"
    /\ Len(out) = 3
    /\ out[1].type = "tool_call"
    /\ out[2].type = "answer"
    /\ out[3] = out[2]
    /\ loc.response_placeholder = [kind |-> "write", body |-> out[3].content]
    /\ loc.tool_placeholder # EmptySlot

\* C18: a cycle appends an assistant message exactly when the adapter
\* emitted a final event in it; then there is one assistant message and its
\* content is the final event's content; a cycle without final event (stream
\* exhausted without an answer, or a fault) appends nothing after the user
\* message, its tool calls are not stored.
C18_AssistantIffFinal ==
    CycleOver =>
        LET assistants == SelectSeq(Added, LAMBDA m : m.role = "assistant")
        IN  /\ Emitted("final") <=> Len(assistants) >= 1
            /\ Len(assistants) <= 1
            /\ Emitted("final") => assistants[1].content = Last(out).content
            /\ ~Emitted("final") => Added = <<>>
            /\ session_state.messages[Len(start_state.messages) + 1].role = "user"

\* a cycle with a tool call and no answer ran to exhaustion and stored
\* nothing but the user message
C18_Witness ==
    /\ CycleOver
    /\ stream.state = "exhausted"
    /\ Emitted("tool_call")
    /\ ~Emitted("final")
    /\ loc.tool_calls # <<>>
    /\ Len(session_state.messages) = Len(start_state.messages) + 1

\* C19: at the end of a cycle that ends with a final event, the tool
\* messages process_user_input built from the tool_call events, and appended
\* to the store, equal the tool_call log carried by the final event, element
\* by element and in order.
C19_ToolLogsAgree ==
    (CycleOver /\ Emitted("final")) =>
        /\ loc.tool_calls = Last(out).tool_calls
        /\ SelectSeq(Added, LAMBDA m : m.role = "tool") = Last(out).tool_calls

\* a cycle with two calls of different tools has ended with a final event
C19_Witness ==
    /\ CycleOver
    /\ Emitted("final")
    /\ Len(Last(out).tool_calls) = 2
    /\ Last(out).tool_calls[1].tool_name # Last(out).tool_calls[2].tool_name
    /\ Len(Added) = 3
====
